---- MODULE Spec2Model ----
(***************************************************************************)
(* BatSAT: a Problem (attribute registry, cardinality-constraint store,    *)
(* rule map with iff-completion at solve time) and its stochastic          *)
(* local-search solve(), together with the Solution view it returns.       *)
(*                                                                         *)
(* Conventions of the model                                                *)
(*  - An attribute string is the sequence of its space-separated tokens:   *)
(*    "sees tim falcon" is <<"sees","tim","falcon">>; the empty string     *)
(*    (the name of an internal-only attribute) is <<>>.  A proposition is  *)
(*    an attribute, optionally preceded by the token "!".                  *)
(*  - A JavaScript number handed to quantify & co. is kept in tenths:      *)
(*    1.5 is 15, 2 is 20.  lo/hi of a stored constraint and the literals   *)
(*    are plain integers.                                                  *)
(*  - null is <<>> and a number n in a nullable field is <<n>>.            *)
(*  - fromInternal[i + 1] is the JavaScript fromInternal[i]; likewise for  *)
(*    an assignment.                                                       *)
(*  - A method is an operator from the Problem's fields (a record p) and   *)
(*    its arguments to [threw, error, p]: whether it threw, the kind of    *)
(*    error, and the fields as the call left them.                         *)
(***************************************************************************)
EXTENDS Integers, Sequences, FiniteSets, TLC

VARIABLES
    fromInternal,        \* Problem.fromInternal
    toInternal,          \* Problem.toInternal
    constraints,         \* Problem.constraints
    rules,               \* Problem.rules
    nonRuleConstraints,  \* Problem.nonRuleConstraints
    pc,                  \* "idle", or "search" while solve() is in its loop
    assignment,          \* solve(): assignment
    result,              \* solve(): result (null, or clausesSatisfied and suggestion)
    noise,               \* solve(): noise, as a fraction <<numerator, denominator>>
    window,              \* solve(): window
    iteration,           \* solve(): iteration
    failsafe,            \* solve(): failsafe
    solution,            \* a Solution the caller holds (null or one Solution)
    satisfyingAssignment, \* the earlier Problem, which stores its result: that field
    lastCall,            \* the last call made: its method and arguments
    outcome,             \* how it ended: "ok", "error", "search", "solution", "timeout"
    error,               \* the kind of the error it threw, "" if none
    rolledBack,          \* the last call truncated the store to the checkpoint
    userConstraints,     \* the store as the calls alone would have left it
    accepted,            \* the constructor calls that returned without throwing
    test,                \* the name of the driving program
    prog                 \* the calls the driving program has yet to make

problem == <<fromInternal, toInternal, constraints, rules, nonRuleConstraints>>
locals == <<pc, assignment, result, noise, window, iteration, failsafe>>
observed == <<lastCall, outcome, error, rolledBack, userConstraints, accepted>>
vars == <<problem, locals, observed, solution, satisfyingAssignment, test, prog>>

null == <<>>

\* solve's failsafe is 50000 iterations; the model runs the loop with this many
Failsafe == 2

(***************************************************************************)
(* Numbers in tenths                                                       *)
(***************************************************************************)
num(n) == 10 * n
floor(x) == x \div 10
\* Math.ceil that rounds down
ceilDown(x) == x \div 10

ceil(x) == -((-x) \div 10)
isInteger(x) == x % 10 = 0
max2(a, b) == IF a >= b THEN a ELSE b
\* Math.min that answers its second argument
minSecond(a, b) == b
min2(a, b) == IF a <= b THEN a ELSE b

(***************************************************************************)
(* attrs-and-props: the identifier grammar and the lookup of an attribute  *)
(***************************************************************************)
\* The tokens of the model's universe that match /^[a-z][A-Za-z0-9_]*$/.
\* "A", "Z", "1b", "_a" and "b c" are tokens of the universe that do not.
IDENT_REGEX ==
    {"a", "b", "c", "d", "e", "f", "g", "p", "q", "s", "x", "y", "z", "zz", "a1B_C",
     "green", "red"}

result_ok(p) == [threw |-> FALSE, error |-> "", p |-> p]
result_throw(p, e) == [threw |-> TRUE, error |-> e, p |-> p]

\* lookupAttributeInMap: [threw, error, value]; value is the id found.
lookupAttributeInMap(attribute, map) ==
    LET predicate == Head(attribute)
        args == Tail(attribute)
        fail(e) == [threw |-> TRUE, error |-> e, value |-> 0]
    IN  IF predicate \notin IDENT_REGEX THEN fail("grammar")
        ELSE IF \E i \in 1..Len(args) : args[i] \notin IDENT_REGEX THEN fail("grammar")
        ELSE IF predicate \notin DOMAIN map THEN fail("reference")
        ELSE IF Len(args) > 3 THEN fail("reference")
        ELSE IF map[predicate].arity # Len(args) THEN fail("reference")
        ELSE IF args \notin DOMAIN map[predicate].ids THEN fail("reference")
        ELSE [threw |-> FALSE, error |-> "", value |-> map[predicate].ids[args]]

(***************************************************************************)
(* Problem: reset, lookup, generate                                        *)
(***************************************************************************)
\* reset that clears the checkpoint and truncates nothing
resetKeep(p) == [p EXCEPT !.nonRuleConstraints = null]

reset(p) ==
    [p EXCEPT
        !.constraints =
            IF p.nonRuleConstraints # null
            THEN SubSeq(p.constraints, 1, p.nonRuleConstraints[1])
            ELSE @,
        !.satisfyingAssignment = null,
        !.nonRuleConstraints = null]

lookup(p, prop) ==
    LET negated == Len(prop) > 0 /\ Head(prop) = "!"
        attribute == IF negated THEN Tail(prop) ELSE prop
        sign == IF negated THEN -1 ELSE 1
        found == IF attribute = <<>>
                 THEN [threw |-> TRUE, error |-> "grammar", value |-> 0]
                 ELSE lookupAttributeInMap(attribute, p.toInternal)
    IN  [found EXCEPT !.value = sign * @]

\* propositions.map((x) => this.lookup(x))
lookupAll(p, propositions) ==
    [i \in 1..Len(propositions) |-> lookup(p, propositions[i]).value]

lookupAllThrows(p, propositions) ==
    \E i \in 1..Len(propositions) : lookup(p, propositions[i]).threw

lookupAllError(p, propositions) ==
    LET i == CHOOSE i \in 1..Len(propositions) :
                /\ lookup(p, propositions[i]).threw
                /\ \A j \in 1..(i - 1) : ~lookup(p, propositions[j]).threw
    IN  lookup(p, propositions[i]).error

\* generate: the new id is fromInternal.length; prop is <<>> for a temporary.
\* generate that answers the length of the registry after its push
generateNext(p, prop) ==
    [value |-> Len(p.fromInternal) + 1,
     p |-> [p EXCEPT !.fromInternal = Append(@, prop)]]

\* generate that hands out the newest id again
generateReuse(p, prop) ==
    [value |-> Len(p.fromInternal) - 1,
     p |-> [p EXCEPT !.fromInternal = [@ EXCEPT ![Len(@)] = prop]]]

generate(p, prop) ==
    [value |-> Len(p.fromInternal),
     p |-> [p EXCEPT !.fromInternal = Append(@, prop)]]

push(p, cs) == [p EXCEPT !.constraints = @ \o cs]

(***************************************************************************)
(* Problem: the constraint constructors                                    *)
(***************************************************************************)
\* quantify without its test of a fully inclusive band
quantifyAny(p, min, max, propositions) ==
    LET n == Len(propositions) IN
    IF ~(0 <= max /\ ceil(min) <= floor(max) /\ min <= num(n))
    THEN result_throw(p, "unsatisfiable")
    ELSE IF lookupAllThrows(p, propositions)
    THEN result_throw(p, lookupAllError(p, propositions))
    ELSE result_ok(push(reset(p),
            << [clause |-> lookupAll(p, propositions),
                lo |-> max2(0, ceil(min)),
                hi |-> min2(n, floor(max))] >>))

quantify(p, min, max, propositions) ==
    LET n == Len(propositions) IN
    IF ~(0 <= max /\ ceil(min) <= floor(max) /\ min <= num(n))
    THEN result_throw(p, "unsatisfiable")
    ELSE IF min <= 0 /\ max >= num(n)
    THEN result_throw(p, "trivial")
    ELSE IF lookupAllThrows(p, propositions)
    THEN result_throw(p, lookupAllError(p, propositions))
    ELSE result_ok(push(reset(p),
            << [clause |-> lookupAll(p, propositions),
                lo |-> max2(0, ceil(min)),
                hi |-> min2(n, floor(max))] >>))

exactly(p, n, propositions) ==
    IF ~(0 <= n /\ n <= num(Len(propositions)) /\ isInteger(n))
    THEN result_throw(p, "unsatisfiable")
    ELSE IF Len(propositions) = 0
    THEN result_throw(p, "trivial")
    ELSE quantify(p, n, n, propositions)

\* all that asks for one of the propositions in place of each of them
allSome(p, propositions) ==
    IF Len(propositions) = 0
    THEN result_throw(p, "trivial")
    ELSE quantify(p, num(1), num(Len(propositions)), propositions)

all(p, propositions) ==
    IF Len(propositions) = 0
    THEN result_throw(p, "trivial")
    ELSE quantify(p, num(Len(propositions)), num(Len(propositions)), propositions)

\* atLeast that takes only whole numbers, as exactly does
atLeastWhole(p, min, propositions) ==
    IF min > num(Len(propositions)) \/ ~isInteger(min)
    THEN result_throw(p, "unsatisfiable")
    ELSE IF min <= 0
    THEN result_throw(p, "trivial")
    ELSE quantify(p, min, num(Len(propositions)), propositions)

atLeast(p, min, propositions) ==
    IF min > num(Len(propositions))
    THEN result_throw(p, "unsatisfiable")
    ELSE IF min <= 0
    THEN result_throw(p, "trivial")
    ELSE quantify(p, min, num(Len(propositions)), propositions)

\* atMost that takes a bound no list can exceed as nothing to add
atMostLenient(p, max, propositions) ==
    IF max < 0
    THEN result_throw(p, "unsatisfiable")
    ELSE IF max >= num(Len(propositions))
    THEN result_ok(p)
    ELSE quantify(p, 0, max, propositions)

atMost(p, max, propositions) ==
    IF max < 0
    THEN result_throw(p, "unsatisfiable")
    ELSE IF max >= num(Len(propositions))
    THEN result_throw(p, "trivial")
    ELSE quantify(p, 0, max, propositions)

\* unique that asks for at least one in place of exactly one
uniqueSome(p, propositions) ==
    IF Len(propositions) = 0
    THEN result_throw(p, "unsatisfiable")
    ELSE quantify(p, num(1), num(Len(propositions)), propositions)

unique(p, propositions) ==
    IF Len(propositions) = 0
    THEN result_throw(p, "unsatisfiable")
    ELSE quantify(p, num(1), num(1), propositions)

inconsistent(p, a, b) == atMost(p, num(1), <<a, b>>)

negateAll(literals) == [i \in 1..Len(literals) |-> -literals[i]]

\* implies that leaves the premises unnegated
impliesUnnegated(p, premises, conclusion) ==
    IF lookup(p, conclusion).threw
    THEN result_throw(p, lookup(p, conclusion).error)
    ELSE IF lookupAllThrows(p, premises)
    THEN result_throw(p, lookupAllError(p, premises))
    ELSE LET conc == lookup(p, conclusion).value
             clause == Append(lookupAll(p, premises), conc)
         IN  result_ok(push(reset(p),
                 << [clause |-> clause, lo |-> 1, hi |-> Len(clause)] >>))

implies(p, premises, conclusion) ==
    IF lookup(p, conclusion).threw
    THEN result_throw(p, lookup(p, conclusion).error)
    ELSE IF lookupAllThrows(p, premises)
    THEN result_throw(p, lookupAllError(p, premises))
    ELSE LET conc == lookup(p, conclusion).value
             prems == negateAll(lookupAll(p, premises))
             clause == Append(prems, conc)
         IN  result_ok(push(reset(p),
                 << [clause |-> clause, lo |-> 1, hi |-> Len(clause)] >>))

\* iff without its last clause: the conclusion implies each premise, only
iffOneWay(p, premises, conclusion) ==
    push(p, [i \in 1..Len(premises) |->
                [clause |-> <<premises[i], -conclusion>>, lo |-> 1, hi |-> 2]])

\* iff works on internal propositions and never throws: it gives the fields.
iff(p, premises, conclusion) ==
    LET clause == Append(negateAll(premises), conclusion) IN
    push(push(p,
            [i \in 1..Len(premises) |->
                [clause |-> <<premises[i], -conclusion>>, lo |-> 1, hi |-> 2]]),
         << [clause |-> clause, lo |-> 1, hi |-> Len(clause)] >>)

equal(p, a, b) ==
    IF Len(a) = 0 /\ Len(b) = 0 THEN result_throw(p, "vacuous")
    ELSE IF Len(a) = 0 THEN all(p, b)
    ELSE IF Len(b) = 0 THEN all(p, a)
    ELSE
    LET q == reset(p) IN
    IF Len(a) = 1
    THEN IF Len(b) = 1
         THEN IF lookup(q, a[1]).threw THEN result_throw(q, lookup(q, a[1]).error)
              ELSE IF lookup(q, b[1]).threw THEN result_throw(q, lookup(q, b[1]).error)
              ELSE LET literalA == lookup(q, a[1]).value
                       literalB == lookup(q, b[1]).value
                   IN  result_ok(push(q,
                         << [clause |-> <<literalA, -literalB>>, lo |-> 1, hi |-> 2],
                            [clause |-> <<-literalA, literalB>>, lo |-> 1, hi |-> 2] >>))
         ELSE IF lookupAllThrows(q, b) THEN result_throw(q, lookupAllError(q, b))
              ELSE IF lookup(q, a[1]).threw THEN result_throw(q, lookup(q, a[1]).error)
              ELSE result_ok(iff(q, lookupAll(q, b), lookup(q, a[1]).value))
    ELSE IF Len(b) = 1
         THEN IF lookupAllThrows(q, a) THEN result_throw(q, lookupAllError(q, a))
              ELSE IF lookup(q, b[1]).threw THEN result_throw(q, lookup(q, b[1]).error)
              ELSE result_ok(iff(q, lookupAll(q, a), lookup(q, b[1]).value))
         ELSE LET g == generate(q, <<>>)
                  hiddenPred == g.value
              IN  IF lookupAllThrows(g.p, a) THEN result_throw(g.p, lookupAllError(g.p, a))
                  ELSE IF lookupAllThrows(g.p, b) THEN result_throw(g.p, lookupAllError(g.p, b))
                  ELSE result_ok(iff(iff(g.p, lookupAll(g.p, a), hiddenPred),
                                     lookupAll(g.p, b), hiddenPred))

assert(p, a) == all(p, <<a>>)

\* this.rules[conc].push(j), creating the list when the head has none
pushRule(p, conc, j) ==
    [p EXCEPT !.rules =
        IF conc \in DOMAIN @
        THEN [@ EXCEPT ![conc] = Append(@, j)]
        ELSE @ @@ (conc :> <<j>>)]

\* rule without the test on the sign of its conclusion
ruleAnyHead(p, conclusion, premises) ==
    IF lookup(p, conclusion).threw
    THEN result_throw(p, lookup(p, conclusion).error)
    ELSE IF lookupAllThrows(p, premises)
    THEN result_throw(p, lookupAllError(p, premises))
    ELSE
    LET conc == lookup(p, conclusion).value
        prems == lookupAll(p, premises)
        q == implies(p, premises, conclusion).p
    IN  IF Len(premises) = 0 THEN result_ok(pushRule(q, conc, 0))
        ELSE IF Len(premises) = 1 THEN result_ok(pushRule(q, conc, prems[1]))
        ELSE LET g == generate(q, <<>>)
                 standin == g.value
             IN  result_ok(pushRule(iff(g.p, prems, standin), conc, standin))

rule(p, conclusion, premises) ==
    IF lookup(p, conclusion).threw
    THEN result_throw(p, lookup(p, conclusion).error)
    ELSE IF lookupAllThrows(p, premises)
    THEN result_throw(p, lookupAllError(p, premises))
    ELSE IF lookup(p, conclusion).value < 0
    THEN result_throw(p, "negated")
    ELSE
    LET conc == lookup(p, conclusion).value
        prems == lookupAll(p, premises)
        q == implies(p, premises, conclusion).p
    IN  IF Len(premises) = 0 THEN result_ok(pushRule(q, conc, 0))
        ELSE IF Len(premises) = 1 THEN result_ok(pushRule(q, conc, prems[1]))
        ELSE LET g == generate(q, <<>>)
                 standin == g.value
             IN  result_ok(pushRule(iff(g.p, prems, standin), conc, standin))

(***************************************************************************)
(* Problem.attribute                                                       *)
(***************************************************************************)
RECURSIVE product(_, _)
\* the number of argument tuples from position j on: |D_j| * ... * |D_k|
product(args, j) == IF j > Len(args) THEN 1 ELSE Len(args[j]) * product(args, j + 1)

\* The r-th (r >= 0) argument tuple in the order of the nested loops.
argsOf(args, r) ==
    [j \in 1..Len(args) |->
        args[j][((r \div product(args, j + 1)) % Len(args[j])) + 1]]

\* attribute without the test for an earlier declaration of the name
attributeAgain(p, name, args) ==
    LET arity == Len(args)
        base == Len(p.fromInternal)
        total == product(args, 1)
        \* map[x][y].. = this.generate(...): a later tuple with the same
        \* arguments overwrites the entry of an earlier one
        ids == [t \in {argsOf(args, r) : r \in 0..(total - 1)} |->
                  base + CHOOSE r \in 0..(total - 1) :
                            /\ argsOf(args, r) = t
                            /\ \A r2 \in 0..(total - 1) : argsOf(args, r2) = t => r2 <= r]
    IN
    IF arity >= 4 THEN result_throw(p, "arity")
    ELSE IF name \notin IDENT_REGEX THEN result_throw(p, "grammar")
    ELSE IF \E j \in 1..arity : \E i \in 1..Len(args[j]) : args[j][i] \notin IDENT_REGEX
    THEN result_throw(p, "grammar")
    ELSE result_ok(
        [p EXCEPT
            !.toInternal = (name :> [arity |-> arity, ids |-> ids]) @@ @,
            !.fromInternal = @ \o [r \in 1..total |-> <<name>> \o argsOf(args, r - 1)]])

attribute(p, name, args) ==
    LET arity == Len(args)
        base == Len(p.fromInternal)
        total == product(args, 1)
        \* map[x][y].. = this.generate(...): a later tuple with the same
        \* arguments overwrites the entry of an earlier one
        ids == [t \in {argsOf(args, r) : r \in 0..(total - 1)} |->
                  base + CHOOSE r \in 0..(total - 1) :
                            /\ argsOf(args, r) = t
                            /\ \A r2 \in 0..(total - 1) : argsOf(args, r2) = t => r2 <= r]
    IN
    IF arity >= 4 THEN result_throw(p, "arity")
    ELSE IF name \notin IDENT_REGEX THEN result_throw(p, "grammar")
    ELSE IF \E j \in 1..arity : \E i \in 1..Len(args[j]) : args[j][i] \notin IDENT_REGEX
    THEN result_throw(p, "grammar")
    ELSE IF name \in DOMAIN p.toInternal THEN result_throw(p, "declaration")
    ELSE result_ok(
        [p EXCEPT
            !.toInternal = @ @@ (name :> [arity |-> arity, ids |-> ids]),
            !.fromInternal = @ \o [r \in 1..total |-> <<name>> \o argsOf(args, r - 1)]])

(***************************************************************************)
(* Problem.satisfies                                                       *)
(***************************************************************************)
\* the inner lookup of satisfies: the value of a literal under an assignment
lookupLiteral(a, literal) ==
    IF literal < 0 THEN ~a[(-literal) + 1] ELSE a[literal + 1]

abs(x) == IF x < 0 THEN -x ELSE x

numLiteralsInClauseSatisfied(a, c) ==
    Cardinality({i \in 1..Len(c.clause) : lookupLiteral(a, c.clause[i])})

\* the clause test without its upper bound
clauseSatisfiedLo(a, c) == c.lo <= numLiteralsInClauseSatisfied(a, c)

clauseSatisfied(a, c) ==
    LET n == numLiteralsInClauseSatisfied(a, c) IN c.lo <= n /\ n <= c.hi

\* the scoring of one constraint that looks at its lower bound only
suggestionOfLo(a, c, i) ==
    LET n == numLiteralsInClauseSatisfied(a, c)
        on(v) == Cardinality({k \in 1..Len(c.clause) :
                    abs(c.clause[k]) = i /\ lookupLiteral(a, c.clause[k]) = v})
    IN  IF clauseSatisfied(a, c)
        THEN (IF c.lo = n THEN -on(TRUE) ELSE 0)
        ELSE (IF n = c.lo - 1 THEN on(FALSE) ELSE 0)

\* what one constraint adds to suggestionMap[i]
suggestionOf(a, c, i) ==
    LET n == numLiteralsInClauseSatisfied(a, c)
        on(v) == Cardinality({k \in 1..Len(c.clause) :
                    abs(c.clause[k]) = i /\ lookupLiteral(a, c.clause[k]) = v})
    IN  IF clauseSatisfied(a, c)
        THEN (IF c.lo = n THEN -on(TRUE) ELSE 0) + (IF c.hi = n THEN -on(FALSE) ELSE 0)
        ELSE (IF n = c.lo - 1 THEN on(FALSE) ELSE 0) + (IF n = c.hi + 1 THEN on(TRUE) ELSE 0)

RECURSIVE sumOver(_, _, _, _)
sumOver(cs, a, i, k) ==
    IF k = 0 THEN 0 ELSE sumOver(cs, a, i, k - 1) + suggestionOf(a, cs[k], i)

suggestionMap(cs, a) == [i \in 0..(Len(a) - 1) |-> sumOver(cs, a, i, Len(cs))]

clausesSatisfied(cs, a) == Cardinality({k \in 1..Len(cs) : clauseSatisfied(a, cs[k])})

RECURSIVE bestUpTo(_, _, _)
\* the list best after the loop has handled i = 1..upto; bestNum stays 0
bestUpTo(map, bestNum, upto) ==
    IF upto = 0 THEN <<>>
    ELSE LET before == bestUpTo(map, bestNum, upto - 1)
             pushed == IF map[upto] = bestNum THEN Append(before, upto) ELSE before
         IN  IF map[upto] > bestNum THEN <<upto>> ELSE pushed

best(cs, a) == bestUpTo(suggestionMap(cs, a), 0, Len(a) - 1)

\* The results satisfies may return: null, or clausesSatisfied with a suggestion
\* drawn from best (undefined, here null, when best is empty).
satisfies(cs, a) ==
    IF clausesSatisfied(cs, a) = Len(cs) THEN {null}
    ELSE LET b == best(cs, a) IN
         IF Len(b) = 0
         THEN { << [clausesSatisfied |-> clausesSatisfied(cs, a), suggestion |-> null] >> }
         ELSE { << [clausesSatisfied |-> clausesSatisfied(cs, a), suggestion |-> <<b[k]>>] >> :
                    k \in 1..Len(b) }

(***************************************************************************)
(* Solution                                                                *)
(***************************************************************************)
\* The attribute strings in the registry: the names of the named ids.
attributes(names) == {names[i] : i \in 2..Len(names)} \ {<<>>}

\* Solution.lookup without the check of the id against the assignment
solutionLookupUnchecked(sol, attr, map) ==
    LET internal == lookupAttributeInMap(attr, map) IN
    IF internal.threw THEN [threw |-> TRUE, error |-> internal.error, value |-> FALSE]
    ELSE [threw |-> FALSE, error |-> "",
          value |-> IF internal.value >= Len(sol.satisfyingAssignment) THEN FALSE
                    ELSE sol.satisfyingAssignment[internal.value + 1]]

\* Solution.lookup[attribute]: [threw, error, value]
solutionLookup(sol, attr, map) ==
    LET internal == lookupAttributeInMap(attr, map) IN
    IF internal.threw THEN [threw |-> TRUE, error |-> internal.error, value |-> FALSE]
    ELSE IF internal.value >= Len(sol.satisfyingAssignment)
    THEN [threw |-> TRUE, error |-> "stale", value |-> FALSE]
    ELSE [threw |-> FALSE, error |-> "",
          value |-> sol.satisfyingAssignment[internal.value + 1]]

\* Solution.trueAttributes, as a set: the names of the named ids assigned true
trueAttributeSet(a, names) ==
    {names[i + 1] : i \in {i \in 1..(Len(a) - 1) : a[i + 1]}} \ {<<>>}

\* The identifiers in the order of their UTF-16 code units, which is the
\* order Array.prototype.sort compares strings by.
TokenOrder ==
    <<"a", "a1B_C", "b", "c", "d", "e", "f", "g", "green", "p", "q", "red",
      "s", "x", "y", "z", "zz">>

rank(t) == CHOOSE i \in 1..Len(TokenOrder) : TokenOrder[i] = t

RECURSIVE less(_, _)
\* s < t as strings: the separating space sorts before every identifier
\* character, so the strings compare as their sequences of tokens do
less(s, t) ==
    IF s = <<>> THEN t # <<>>
    ELSE IF t = <<>> THEN FALSE
    ELSE IF Head(s) = Head(t) THEN less(Tail(s), Tail(t))
    ELSE rank(Head(s)) < rank(Head(t))

RECURSIVE insert(_, _)
insert(x, names) ==
    IF names = <<>> THEN <<x>>
    ELSE IF less(x, Head(names)) THEN <<x>> \o names
    ELSE <<Head(names)>> \o insert(x, Tail(names))

\* .sort() that leaves the array in the order of the ids
sortNone(names) == names

RECURSIVE sort(_)
\* .sort() with the default comparator
sort(names) ==
    IF names = <<>> THEN <<>> ELSE insert(Head(names), sort(Tail(names)))

\* Solution.trueAttributes: the ids assigned true, without 0, mapped to
\* their names, without the empty name, sorted
trueAttributes(a, names) ==
    LET isTrue(i) == a[i + 1] /\ i > 0
        ids == SelectSeq([k \in 1..Len(a) |-> k - 1], isTrue)
        mapped == [k \in 1..Len(ids) |-> names[ids[k] + 1]]
        isNamed(x) == x # <<>>
    IN  sort(SelectSeq(mapped, isNamed))

\* new Solution(assignment, toInternal, fromInternal).  toInternal and
\* fromInternal are the Problem's own objects, so the Solution reads the
\* variables; atReturn records what lookup answered right after the solve.
newSolution(a, map, names) ==
    [satisfyingAssignment |-> a,
     trueAttributes |-> trueAttributes(a, names),
     atReturn |-> [t \in attributes(names) |->
                     solutionLookup([satisfyingAssignment |-> a], t, map)]]

(***************************************************************************)
(* Problem.solve                                                           *)
(***************************************************************************)
RECURSIVE sorted(_)
\* Object.entries of an object with integer keys lists them in ascending order
sorted(S) ==
    IF S = {} THEN <<>>
    ELSE LET m == CHOOSE x \in S : \A y \in S : x <= y
         IN  <<m>> \o sorted(S \ {m})

\* no completion clause at all
completionNone(rs) == <<>>

\* the completion that keeps the first justification of a head only
completionFirst(rs) ==
    LET heads == sorted(DOMAIN rs) IN
    [k \in 1..Len(heads) |->
        [lo |-> 1, hi |-> 2, clause |-> <<-heads[k], rs[heads[k]][1]>>]]

completion(rs) ==
    LET heads == sorted(DOMAIN rs) IN
    [k \in 1..Len(heads) |->
        [lo |-> 1,
         hi |-> Len(rs[heads[k]]) + 1,
         clause |-> <<-heads[k]>> \o rs[heads[k]]]]

\* the first statement of solve without its test of the checkpoint
addCompletionAgain(p) ==
    [p EXCEPT !.nonRuleConstraints = <<Len(p.constraints)>>,
              !.constraints = @ \o completion(p.rules)]

\* the first statement of solve
addCompletion(p) ==
    IF p.nonRuleConstraints = null
    THEN [p EXCEPT !.nonRuleConstraints = <<Len(p.constraints)>>,
                   !.constraints = @ \o completion(p.rules)]
    ELSE p

\* a first assignment that is not random: every id true
initialAllTrue(n) == {[i \in 1..n |-> TRUE]}

\* this.fromInternal.map(() => Math.random() >= 0.5) with assignment[0] = true
initialAssignments(n) == {a \in [1..n -> BOOLEAN] : a[1]}

windowSize(cs) == max2(3, (Len(cs) + 5) \div 6)

\* assignment[i] = !assignment[i]; the index undefined touches no element, an
\* index one past the end appends !undefined
flip(a, i) ==
    IF i = null THEN a
    ELSE IF i[1] + 1 <= Len(a) THEN [a EXCEPT ![i[1] + 1] = ~@]
    ELSE Append(a, TRUE)

\* Math.floor(Math.random() * assignment.length): a guess that may be 0
guessesFromZero(a) == 0..(Len(a) - 1)

\* 1 + Math.floor(Math.random() * (assignment.length - 1))
guesses(a) == IF Len(a) <= 1 THEN {1} ELSE 1..(Len(a) - 1)

\* the noise after an iteration, as a fraction
nextNoise(n, w, r) ==
    IF \A k \in 1..Len(w) : w[k] >= r.clausesSatisfied
    THEN <<4 * n[1] + n[2], 5 * n[2]>>
    ELSE <<19 * n[1], 20 * n[2]>>

\* a failsafe that never runs out
exhaustedNever(f) == FALSE

\* if (failsafe === 0) throw new Error('Timeout')
exhausted(f) == f = 0

P == [fromInternal |-> fromInternal, toInternal |-> toInternal,
      constraints |-> constraints, rules |-> rules,
      nonRuleConstraints |-> nonRuleConstraints,
      satisfyingAssignment |-> satisfyingAssignment]

\* the Problem if no solve had ever been made: the store holds the user's
\* constraints and there is no checkpoint
shadow == [P EXCEPT !.constraints = userConstraints, !.nonRuleConstraints = null]

install(p) ==
    /\ fromInternal' = p.fromInternal
    /\ toInternal' = p.toInternal
    /\ constraints' = p.constraints
    /\ rules' = p.rules
    /\ nonRuleConstraints' = p.nonRuleConstraints

idle ==
    /\ pc' = "idle"
    /\ result' = null
    /\ noise' = <<0, 1>>
    /\ window' = <<>>
    /\ iteration' = 0
    /\ failsafe' = 0

\* return new Solution(...); the caller keeps it or drops it
return(a, keep) ==
    /\ idle
    /\ assignment' = a
    /\ outcome' = "solution"
    /\ error' = ""
    /\ solution' = IF keep THEN <<newSolution(a, toInternal', fromInternal')>>
                   ELSE solution
    /\ satisfyingAssignment' = <<a>>

\* throw new Error('Timeout'), with the assignment as the last flip left it
timeout(a) ==
    /\ idle
    /\ assignment' = a
    /\ outcome' = "timeout"
    /\ error' = "Timeout"
    /\ UNCHANGED <<solution, satisfyingAssignment>>

(***************************************************************************)
(* The calls of a driving program                                          *)
(***************************************************************************)
pos(t) == <<t>>
neg(t) == <<"!", t>>

declare(name) == [op |-> "attribute", name |-> name, args |-> <<>>]
declareWith(name, args) == [op |-> "attribute", name |-> name, args |-> args]
callQuantify(min, max, ps) == [op |-> "quantify", min |-> min, max |-> max, a |-> ps]
callExactly(n, ps) == [op |-> "exactly", min |-> n, a |-> ps]
callAll(ps) == [op |-> "all", a |-> ps]
callAtLeast(n, ps) == [op |-> "atLeast", min |-> n, a |-> ps]
callAtMost(n, ps) == [op |-> "atMost", max |-> n, a |-> ps]
callUnique(ps) == [op |-> "unique", a |-> ps]
callInconsistent(x, y) == [op |-> "inconsistent", a |-> <<x, y>>]
callImplies(ps, c) == [op |-> "implies", a |-> ps, b |-> <<c>>]
callEqual(as, bs) == [op |-> "equal", a |-> as, b |-> bs]
callAssert(x) == [op |-> "assert", a |-> <<x>>]
callRule(c, ps) == [op |-> "rule", a |-> ps, b |-> <<c>>]
callSolve == [op |-> "solve", keep |-> FALSE]
callSolveKeep == [op |-> "solve", keep |-> TRUE]
\* a solve of the loop of exactTest, which solves again and again; round
\* tells an iteration from the next one
callSolveAgain(round) == [op |-> "solve", keep |-> FALSE, round |-> round]

(***************************************************************************)
(* Actions: one per public method, and the iterations of solve's loop      *)
(***************************************************************************)
\* the calls of method op the driving program may make next
calls(op) ==
    IF pc = "idle" /\ prog # <<>> THEN {c \in Head(prog) : c.op = op} ELSE {}

\* A constructor or a declaration has run to its end or to its throw: r is
\* what it did to the Problem, s what it would have done had no solve been
\* made before.
finish(c, r, s) ==
    /\ prog' = Tail(prog)
    /\ test' = test
    /\ install(r.p)
    /\ idle
    /\ assignment' = <<>>
    /\ lastCall' = c
    /\ outcome' = IF r.threw THEN "error" ELSE "ok"
    /\ error' = r.error
    /\ rolledBack' = (nonRuleConstraints # null /\ r.p.nonRuleConstraints = null)
    /\ userConstraints' = s.p.constraints
    /\ accepted' = IF c.op # "attribute" /\ ~r.threw THEN Append(accepted, c)
                   ELSE accepted
    /\ satisfyingAssignment' = r.p.satisfyingAssignment
    /\ UNCHANGED solution

Attribute ==
    \E c \in calls("attribute") :
       finish(c, attribute(P, c.name, c.args), attribute(shadow, c.name, c.args))

Quantify ==
    \E c \in calls("quantify") :
       finish(c, quantify(P, c.min, c.max, c.a), quantify(shadow, c.min, c.max, c.a))

Exactly ==
    \E c \in calls("exactly") :
       finish(c, exactly(P, c.min, c.a), exactly(shadow, c.min, c.a))

All ==
    \E c \in calls("all") :
       finish(c, all(P, c.a), all(shadow, c.a))

AtLeast ==
    \E c \in calls("atLeast") :
       finish(c, atLeast(P, c.min, c.a), atLeast(shadow, c.min, c.a))

AtMost ==
    \E c \in calls("atMost") :
       finish(c, atMost(P, c.max, c.a), atMost(shadow, c.max, c.a))

Unique ==
    \E c \in calls("unique") :
       finish(c, unique(P, c.a), unique(shadow, c.a))

Inconsistent ==
    \E c \in calls("inconsistent") :
       finish(c, inconsistent(P, c.a[1], c.a[2]), inconsistent(shadow, c.a[1], c.a[2]))

Implies ==
    \E c \in calls("implies") :
       finish(c, implies(P, c.a, c.b[1]), implies(shadow, c.a, c.b[1]))

Equal ==
    \E c \in calls("equal") :
       finish(c, equal(P, c.a, c.b), equal(shadow, c.a, c.b))

AssertProp ==
    \E c \in calls("assert") :
       finish(c, assert(P, c.a[1]), assert(shadow, c.a[1]))

Rule ==
    \E c \in calls("rule") :
       finish(c, rule(P, c.b[1], c.a), rule(shadow, c.b[1], c.a))

\* solve() up to its loop: completion, the random assignment, the first
\* scoring; it returns at once when that assignment satisfies the store.
Solve ==
    \E c \in calls("solve") :
    /\ prog' = IF "round" \in DOMAIN c THEN Append(Tail(prog), Head(prog))
               ELSE Tail(prog)
    /\ test' = test
    /\ install(addCompletion(P))
    /\ lastCall' = c
    /\ rolledBack' = FALSE
    /\ UNCHANGED <<userConstraints, accepted>>
    /\ \E a \in initialAssignments(Len(fromInternal)) :
         \E r \in satisfies(addCompletion(P).constraints, a) :
            IF r = null
            THEN return(a, c.keep)
            ELSE /\ pc' = "search"
                 /\ assignment' = a
                 /\ result' = r
                 /\ noise' = <<0, 1>>
                 /\ window' = [i \in 1..windowSize(addCompletion(P).constraints) |-> 0]
                 /\ iteration' = 0
                 /\ failsafe' = Failsafe
                 /\ outcome' = "search"
                 /\ error' = ""
                 /\ UNCHANGED <<solution, satisfyingAssignment>>

\* one iteration of the loop after the flip that made a2 of the assignment
iterate(a2) ==
    /\ UNCHANGED <<problem, lastCall, rolledBack, userConstraints, accepted, test, prog>>
    /\ \E r \in satisfies(constraints, a2) :
         IF exhausted(failsafe - 1)
         THEN timeout(a2)
         ELSE IF r = null
         THEN return(a2, lastCall.keep)
         ELSE /\ pc' = "search"
              /\ assignment' = a2
              /\ result' = r
              /\ noise' = nextNoise(noise, window, result[1])
              /\ window' = [window EXCEPT
                              ![(iteration % Len(window)) + 1] = result[1].clausesSatisfied]
              /\ iteration' = iteration + 1
              /\ failsafe' = failsafe - 1
              /\ UNCHANGED <<outcome, error, solution, satisfyingAssignment>>

\* Math.random() > noise: some value in [0, 1) is above any noise below 1
GreedyFlip ==
    /\ pc = "search"
    /\ noise[1] < noise[2]
    /\ iterate(flip(assignment, result[1].suggestion))

\* Math.random() <= noise: the value 0 is at most any noise
RandomFlip ==
    /\ pc = "search"
    /\ \E guess \in guesses(assignment) : iterate(flip(assignment, <<guess>>))

Next ==
    \/ Attribute \/ Quantify \/ Exactly \/ All \/ AtLeast \/ AtMost \/ Unique
    \/ Inconsistent \/ Implies \/ Equal \/ AssertProp \/ Rule
    \/ Solve \/ GreedyFlip \/ RandomFlip

(***************************************************************************)
(* The driving programs: the scenarios of the test suite, and programs     *)
(* that choose each call among several                                     *)
(***************************************************************************)
RECURSIVE each(_)
\* a program that makes exactly the given calls
each(cs) == IF cs = <<>> THEN <<>> ELSE <<{Head(cs)}>> \o each(Tail(cs))

\* test 'p <= -q, q <= -p, does not admit {p, q} as a solution'
progRulesPQ ==
    each(<<declare("p"), declare("q"),
           callRule(pos("q"), <<neg("p")>>), callRule(pos("p"), <<neg("q")>>),
           callSolve, callSolve>>)

\* test '-q > p, -p > q, admits {p, q} as a solution'
progImpliesPQ ==
    each(<<declare("p"), declare("q"),
           callImplies(<<neg("p")>>, pos("q")), callImplies(<<neg("q")>>, pos("p")),
           callSolve>>)

\* test 'Iff-completion for a proposition defined by two rules'
progTwoRules ==
    each(<<declare("a"), declare("b"), declare("c"), declare("d"),
           callRule(pos("a"), <<pos("b"), pos("c")>>), callRule(pos("a"), <<pos("d")>>),
           callSolve>>)

\* test 'Unsatisfiable constraints raise an exception'
progUnsat ==
    each(<<declare("a"), callAssert(pos("a")), callAssert(neg("a")), callSolve, callSolve>>)

\* test 'Rules with no premises and equals [] work like an assertion'
progAssertionLike ==
    each(<<declare("a"), declare("b"), declare("c"), declare("d"),
           declare("e"), declare("f"), declare("g"),
           callRule(pos("a"), <<>>), callRule(pos("b"), <<pos("c")>>),
           callRule(pos("c"), <<pos("a")>>), callAssert(neg("d")),
           callEqual(<<>>, <<pos("f")>>), callEqual(<<neg("g"), pos("e")>>, <<>>),
           callSolve>>)

\* test 'Test solution lookup': the second assert is of b or of !b
progLookup ==
    each(<<declare("a"), declare("b"), callAssert(pos("a")), callSolveKeep, declare("c")>>)
    \o << {callAssert(neg("b")), callAssert(pos("b"))} >>
    \o each(<<callImplies(<<pos("a")>>, pos("c")), callSolve>>)

\* test 'exactly()'
progExactly ==
    each(<<declare("a"), declare("b"), declare("c"),
           callExactly(15, <<pos("a"), pos("b"), pos("c")>>),
           callExactly(num(-1), <<pos("a"), pos("b"), pos("c")>>),
           callExactly(num(4), <<pos("a"), pos("b"), pos("c")>>),
           callExactly(num(0), <<>>),
           callExactly(num(2), <<pos("a"), pos("b"), pos("c")>>), callSolve,
           callExactly(num(1), <<neg("a"), neg("c")>>), callSolve>>)

\* test 'atMost()'
progAtMost ==
    each(<<declare("a"), declare("b"), declare("c"),
           callAtMost(num(-1), <<pos("a"), pos("b"), pos("c")>>),
           callAtMost(num(5), <<pos("a"), pos("b"), pos("c")>>),
           callAtMost(22, <<pos("a"), pos("b"), neg("c")>>), callSolve,
           callAtMost(num(0), <<pos("a"), neg("b")>>), callSolve>>)

\* test 'atLeast()'
progAtLeast ==
    each(<<declare("a"), declare("b"), declare("c"),
           callAtLeast(num(0), <<pos("a"), pos("b"), pos("c")>>),
           callAtLeast(num(4), <<pos("a"), pos("b"), pos("c")>>),
           callAtLeast(num(2), <<pos("a"), neg("b")>>), callSolve>>)

\* test 'all()'
progAll ==
    each(<<declare("a"), declare("b"), declare("c"),
           callAll(<<>>), callAll(<<neg("a"), neg("b"), neg("c")>>), callSolve>>)

\* test 'unique()'
progUnique ==
    each(<<declare("a"), declare("b"), declare("c"),
           callUnique(<<>>), callUnique(<<pos("a")>>),
           callUnique(<<pos("b"), pos("c")>>), callSolve>>)

\* test 'inconsistent()'
progInconsistent ==
    each(<<declare("a"), declare("b"), declare("c"),
           callInconsistent(pos("a"), neg("b")), callInconsistent(pos("b"), pos("c")),
           callSolve>>)

\* after test 'quantify()': three calls that throw, then one that is kept
progQuantification ==
    each(<<declare("a"), declare("b"), declare("c"), declare("d"),
           callQuantify(num(-2), num(-1), <<pos("a"), pos("b"), pos("d")>>),
           callQuantify(num(5), num(6), <<pos("a"), pos("b"), pos("d")>>),
           callQuantify(num(2), num(1), <<pos("a"), pos("b"), pos("d")>>),
           callQuantify(num(2), num(2), <<pos("a"), pos("b"), pos("c")>>),
           callSolve>>)

\* The sides of an equal: empty, a proposition, a conjunction.  "zz" is a
\* well-formed attribute that is never declared.
EqualSides ==
    {<<>>, <<pos("a")>>, <<neg("b")>>, <<pos("a"), pos("b")>>, <<pos("c"), neg("d")>>}

\* one equal of any shape over four attributes, then a solve
progEqual ==
    each(<<declare("a"), declare("b"), declare("c"), declare("d")>>)
    \o << {callEqual(x, y) : x, y \in EqualSides} >>
    \o each(<<callSolve>>)

\* test 'Negations allowed in implication heads, but not rule heads'
progNegations ==
    each(<<declare("a"), declare("b"), declare("c"), declare("d"),
           callImplies(<<pos("a")>>, neg("b")), callRule(neg("c"), <<pos("d")>>),
           callSolve>>)

\* test 'Unsupported arities'
progArities ==
    each(<<declareWith("a", << <<"green", "red">>, <<"green", "red">>,
                               <<"green", "red">>, <<"green", "red">> >>),
           declareWith("b", << <<"green", "red">> >>),
           declare("b"),
           declareWith("b", << <<"x", "y", "z">> >>),
           declareWith("b", << <<"green", "red">> >>),
           callSolve>>)

\* one constraint with a bound that is or is not an integer, then a solve
progRounding ==
    each(<<declare("a"), declare("b"), declare("c")>>)
    \o << {callQuantify(15, 35, <<pos("a"), pos("b"), pos("c")>>),
           callQuantify(num(2), num(3), <<pos("a"), pos("b"), pos("c")>>),
           callQuantify(13, 14, <<pos("a"), pos("b"), pos("c")>>),
           callQuantify(num(0), num(3), <<pos("a"), pos("b"), pos("c")>>),
           callQuantify(5, 25, <<pos("a"), neg("b"), pos("zz")>>),
           callQuantify(num(-1), num(1), <<pos("a"), pos("b"), pos("c")>>),
           callQuantify(num(2), num(5), <<pos("a"), pos("b"), pos("c")>>),
           callAtLeast(15, <<pos("a"), pos("b"), pos("c")>>),
           callAtLeast(num(2), <<pos("a"), pos("b"), pos("c")>>),
           callAtMost(22, <<pos("a"), pos("b"), neg("c")>>),
           callExactly(15, <<pos("a"), pos("b"), pos("c")>>)} >>
    \o each(<<callSolve>>)

\* attributes declared out of alphabetical order, with arguments, and a rule
\* that mints an anonymous atom
progNames ==
    each(<<declare("q"), declareWith("p", << <<"y", "x">> >>),
           callRule(pos("q"), << <<"p", "y">>, <<"p", "x">> >>),
           callSolveKeep>>)

\* The calls the interleaving program chooses from: valid constraints of
\* each kind, and calls that throw.
Constructors ==
    {callRule(pos("a"), <<neg("b")>>),
     callRule(pos("b"), <<pos("a"), pos("a")>>),
     callRule(neg("a"), <<pos("b")>>),
     callImplies(<<pos("a")>>, neg("b")),
     callEqual(<<pos("a")>>, <<pos("zz")>>),
     callEqual(<<pos("a"), pos("b")>>, <<neg("a"), pos("zz")>>),
     callQuantify(num(1), num(1), <<pos("a"), pos("b")>>),
     callAssert(pos("A")),
     declare("a"), declare("c")}

\* constraints and solves in any order over two attributes
progInterleave ==
    each(<<declare("a"), declare("b")>>)
    \o << Constructors, {callSolve}, Constructors \cup {callSolve}, {callSolve},
          Constructors, {callSolve} >>

\* a domain that lists x twice: generate is called for 'p x' twice
progDuplicate ==
    each(<<declareWith("p", << <<"x", "x">> >>), declare("q"),
           callImplies(<<pos("q")>>, <<"p", "x">>),
           callSolveKeep>>)

\* a twice in an all, and exactly one of a and b: from a false and b true
\* no single flip helps the first clause and each flip breaks the second
progStuck ==
    each(<<declare("a"), declare("b"),
           callAll(<<pos("a"), pos("a")>>),
           callUnique(<<pos("a"), pos("b")>>),
           callSolve>>)

\* The constraints of the variety program: one of each kind, each leaving
\* more than one model over a and b.
VarietyConstraints ==
    {callQuantify(num(1), num(2), <<pos("a"), pos("b")>>),
     callExactly(num(1), <<pos("a"), pos("b")>>),
     callAll(<<neg("b")>>),
     callAtLeast(num(1), <<pos("a"), pos("b")>>),
     callAtMost(num(1), <<pos("a"), pos("b")>>),
     callUnique(<<pos("a"), neg("b")>>),
     callInconsistent(pos("a"), pos("b")),
     callImplies(<<pos("a")>>, pos("b")),
     callEqual(<<pos("a")>>, <<pos("b")>>),
     callAssert(pos("a")),
     callRule(pos("a"), <<pos("b")>>),
     callRule(pos("b"), <<neg("a")>>),
     callExactly(num(1), <<pos("a"), neg("b")>>),
     callAtLeast(num(1), <<neg("a"), pos("b")>>),
     callImplies(<<neg("a")>>, neg("b"))}

\* exactTest: one constraint over two attributes, then solve after solve
progVariety ==
    each(<<declare("a"), declare("b")>>)
    \o << VarietyConstraints, {callSolveAgain(0)}, {callSolveAgain(1)} >>

Programs ==
    [rulesPQ |-> progRulesPQ,
     impliesPQ |-> progImpliesPQ,
     twoRules |-> progTwoRules,
     unsat |-> progUnsat,
     assertionLike |-> progAssertionLike,
     lookup |-> progLookup,
     exactly |-> progExactly,
     atMost |-> progAtMost,
     atLeast |-> progAtLeast,
     all |-> progAll,
     unique |-> progUnique,
     inconsistent |-> progInconsistent,
     quantification |-> progQuantification,
     equal |-> progEqual,
     negations |-> progNegations,
     arities |-> progArities,
     rounding |-> progRounding,
     names |-> progNames,
     variety |-> progVariety,
     stuck |-> progStuck,
     duplicate |-> progDuplicate,
     interleave |-> progInterleave]

Init ==
    /\ fromInternal = << <<>> >>
    /\ toInternal = <<>>
    /\ constraints = <<>>
    /\ rules = <<>>
    /\ nonRuleConstraints = null
    /\ pc = "idle"
    /\ assignment = <<>>
    /\ result = null
    /\ noise = <<0, 1>>
    /\ window = <<>>
    /\ iteration = 0
    /\ failsafe = 0
    /\ solution = null
    /\ satisfyingAssignment = null
    /\ lastCall = [op |-> "new"]
    /\ outcome = "ok"
    /\ error = ""
    /\ rolledBack = FALSE
    /\ userConstraints = <<>>
    /\ accepted = <<>>
    /\ test \in DOMAIN Programs
    /\ prog = Programs[test]

Spec == Init /\ [][Next]_vars

\* the programs whose solves are followed to their end
TermPrograms == DOMAIN Programs \ {"interleave", "assertionLike", "variety"}

\* solve is synchronous: once in its loop it runs until it returns or throws
FairInit == Init /\ test \in TermPrograms

FairSpec == FairInit /\ [][Next]_vars /\ WF_vars(GreedyFlip \/ RandomFlip)

\* exactTest runs its loop on and on, and Math.random is fair: a first
\* assignment that solve may draw again and again is drawn in the end
VarietyInit == Init /\ test = "variety"

VarietySpec ==
    /\ VarietyInit
    /\ [][Next]_vars
    /\ WF_vars(Next)
    /\ \A a \in initialAssignments(3) : SF_vars(Solve /\ assignment' = a)

(***************************************************************************)
(* The reading of the store and of the calls that the properties use       *)
(***************************************************************************)
\* the value of a literal under an assignment; the literal 0 is constant true
holds(a, l) == IF l = 0 THEN TRUE ELSE IF l > 0 THEN a[l + 1] ELSE ~a[1 - l]

\* the number of literals of a clause that are true
count(a, c) == Cardinality({i \in 1..Len(c.clause) : holds(a, c.clause[i])})

inBand(a, c) == c.lo <= count(a, c) /\ count(a, c) <= c.hi

\* the assignments that satisfy every clause of a store
satisfying(cs, n) ==
    {a \in initialAssignments(n) : \A k \in 1..Len(cs) : inBand(a, cs[k])}

\* the id of a declared attribute
idOf(attr) ==
    CHOOSE i \in 1..(Len(fromInternal) - 1) :
        /\ fromInternal[i + 1] = attr
        /\ \A j \in (i + 1)..(Len(fromInternal) - 1) : fromInternal[j + 1] # attr

isNegated(prop) == Len(prop) > 0 /\ Head(prop) = "!"

literalOf(prop) == IF isNegated(prop) THEN -idOf(Tail(prop)) ELSE idOf(prop)

literalsOf(props) == [i \in 1..Len(props) |-> literalOf(props[i])]

\* every proposition of a conjunction is satisfied
conjunction(a, props) == \A i \in 1..Len(props) : holds(a, literalOf(props[i]))

acceptedCalls(op) == {k \in 1..Len(accepted) : accepted[k].op = op}

named(S) == {<<t>> : t \in S}

\* the sets of true attributes a solve made now can return at once: those of
\* the first assignments that its first call of satisfies accepts
solvable ==
    LET cs == addCompletion(P).constraints IN
    {trueAttributeSet(a, fromInternal) :
        a \in {a \in initialAssignments(Len(fromInternal)) : satisfies(cs, a) = {null}}}

\* the driving program has made all its calls but its solves
ready == pc = "idle" /\ prog # <<>> /\ \A i \in 1..Len(prog) : prog[i] = {callSolve}

returned == trueAttributeSet(assignment, fromInternal)

\* no assignment satisfies the stored clauses
unsatisfiable == satisfying(constraints, Len(fromInternal)) = {}

\* a set of named attributes satisfies every proposition of a conjunction
sat(m, props) ==
    \A i \in 1..Len(props) :
        IF isNegated(props[i]) THEN Tail(props[i]) \notin m ELSE props[i] \in m

\* the attributes that are heads of accepted rules
heads == {idOf(accepted[k].b[1]) : k \in acceptedCalls("rule")}

\* the last step was a call of the driving program that returned
returns(op) == prog' # prog /\ lastCall'.op = op /\ outcome' = "ok"

\* the last step was a call of the driving program, returned or thrown
made(op) == prog' # prog /\ lastCall'.op = op

\* the least integer not below, the greatest integer not above, a number in tenths
roundUp(x) == CHOOSE k \in -100..100 : 10 * k >= x /\ 10 * (k - 1) < x

roundDown(x) == CHOOSE k \in -100..100 : 10 * k <= x /\ 10 * (k + 1) > x

\* the band of quantify(min, max, P) over n propositions
bandLo(min) == IF roundUp(min) > 0 THEN roundUp(min) ELSE 0

bandHi(max, n) == IF roundDown(max) < n THEN roundDown(max) ELSE n

\* the clause the data model gives quantify(min, max, props)
quantified(min, max, props) ==
    [lo |-> bandLo(min), hi |-> bandHi(max, Len(props)), clause |-> literalsOf(props)]

\* the number of propositions of a list that an assignment satisfies
satisfiedOf(a, props) ==
    Cardinality({i \in 1..Len(props) : holds(a, literalOf(props[i]))})

infeasible(min, max, n) ==
    ~(0 <= max /\ roundUp(min) <= roundDown(max) /\ min <= 10 * n)

vacuous(min, max, n) == min <= 0 /\ max >= 10 * n

\* every proposition of a list is over a declared attribute
declaredAll(props) ==
    \A i \in 1..Len(props) :
        (IF isNegated(props[i]) THEN Tail(props[i]) ELSE props[i])
            \in attributes(fromInternal)

\* the step left the Problem as quantify(min, max, props) leaves it, with
\* the clause of that quantify at the end of the user's clauses
sameAsQuantify(min, max, props) ==
    /\ ~quantify(P, min, max, props).threw
    /\ install(quantify(P, min, max, props).p)
    /\ constraints' = Append(userConstraints, quantified(min, max, props))

\* the calls that ask for nothing or for the impossible by their arguments
degenerate(c) ==
    \/ c.op = "atLeast" /\ (c.min <= 0 \/ c.min > num(Len(c.a)))
    \/ c.op = "atMost" /\ (c.max < 0 \/ c.max >= num(Len(c.a)))
    \/ c.op = "exactly" /\ \/ c.min < 0
                           \/ c.min > num(Len(c.a))
                           \/ c.min % 10 # 0
                           \/ c.min = 0 /\ c.a = <<>>
    \/ c.op \in {"all", "unique"} /\ c.a = <<>>
    \/ c.op = "equal" /\ c.a = <<>> /\ c.b = <<>>

RejectedQuantifies ==
    {callQuantify(num(-2), num(-1), <<pos("a"), pos("b"), pos("d")>>),
     callQuantify(num(5), num(6), <<pos("a"), pos("b"), pos("d")>>),
     callQuantify(num(2), num(1), <<pos("a"), pos("b"), pos("d")>>),
     callQuantify(13, 14, <<pos("a"), pos("b"), pos("c")>>),
     callQuantify(num(0), num(3), <<pos("a"), pos("b"), pos("c")>>)}

ConstraintOps ==
    {"quantify", "exactly", "all", "atLeast", "atMost", "unique", "inconsistent",
     "implies", "equal", "assert", "rule"}

TwoRulesModels ==
    {named({}), named({"b"}), named({"c"}), named({"a", "d"}),
     named({"a", "b", "c"}), named({"a", "b", "d"}), named({"a", "c", "d"}),
     named({"a", "b", "c", "d"})}

(***************************************************************************)
(* C1: Soundness.  Whenever solve returns a Solution, the number of true   *)
(* literals of every clause in the store at that moment lies in [lo, hi].  *)
(***************************************************************************)
C1_Soundness ==
    outcome = "solution" =>
        /\ Len(assignment) = Len(fromInternal)
        /\ \A k \in 1..Len(constraints) : inBand(assignment, constraints[k])

\* a solution of a store with user clauses and completion clauses, returned
\* by a solve that follows an earlier solve and a rollback
C1_Witness ==
    /\ outcome = "solution"
    /\ test = "interleave"
    /\ prog = <<>>
    /\ Len(userConstraints) >= 3
    /\ Len(constraints) > Len(userConstraints)
    /\ \E k \in 1..Len(constraints) : constraints[k].hi < Len(constraints[k].clause)

(***************************************************************************)
(* C2: Rule semantics.  In every returned Solution a rule head h is true   *)
(* only if a recorded justification of h is true, and h is true exactly    *)
(* when some rule with head h has all its premises satisfied.  The rules   *)
(* q <- !p, p <- !q have the models {p}, {q}; the rules a <- b,c and       *)
(* a <- d have eight models over a, b, c, d.                               *)
(***************************************************************************)
C2_RuleSemantics ==
    /\ outcome = "solution" =>
         \A k \in acceptedCalls("rule") :
            LET h == idOf(accepted[k].b[1]) IN
            /\ assignment[h + 1] =>
                 \E j \in 1..Len(rules[h]) : holds(assignment, rules[h][j])
            /\ assignment[h + 1] <=>
                 \E r \in acceptedCalls("rule") :
                    /\ idOf(accepted[r].b[1]) = h
                    /\ conjunction(assignment, accepted[r].a)
    /\ test = "rulesPQ" /\ outcome = "solution" =>
         returned \in {named({"p"}), named({"q"})}
    /\ test = "rulesPQ" /\ ready => solvable = {named({"p"}), named({"q"})}
    /\ test = "twoRules" /\ outcome = "solution" => returned \in TwoRulesModels
    /\ test = "twoRules" /\ ready => solvable = TwoRulesModels

\* a head made true by its second rule alone
C2_Witness ==
    /\ test = "twoRules"
    /\ outcome = "solution"
    /\ returned = named({"a", "d"})

(***************************************************************************)
(* C3: Termination.  solve makes at most Failsafe flips and then ends, in  *)
(* a Solution or in the Timeout error; when no assignment satisfies the    *)
(* stored clauses it ends in Timeout, never in a Solution.                 *)
(***************************************************************************)
C3_Terminates ==
    /\ [](pc = "search" => failsafe \in 1..Failsafe /\ iteration = Failsafe - failsafe)
    /\ [](lastCall.op = "solve" /\ unsatisfiable => outcome \in {"search", "timeout"})
    /\ (pc = "search") ~> (pc = "idle" /\ outcome \in {"solution", "timeout"})
    /\ (pc = "search" /\ unsatisfiable) ~> (pc = "idle" /\ outcome = "timeout")

\* the solve of an unsatisfiable store has thrown Timeout
C3_Witness ==
    /\ lastCall.op = "solve"
    /\ unsatisfiable
    /\ outcome = "timeout"
    /\ error = "Timeout"

(***************************************************************************)
(* C4: Checkpoint idempotence.  After each solve, however it ended, the    *)
(* clause list is the user's clauses in order followed by exactly one      *)
(* completion clause per rule head, and a solve that follows a solve       *)
(* leaves the clause list unchanged.                                       *)
(***************************************************************************)
C4_CheckpointIdempotence ==
    /\ [](lastCall.op = "solve" =>
            LET n == Len(userConstraints)
                tail == SubSeq(constraints, n + 1, Len(constraints))
            IN  /\ nonRuleConstraints = <<n>>
                /\ Len(constraints) >= n
                /\ SubSeq(constraints, 1, n) = userConstraints
                /\ Len(tail) = Cardinality(heads)
                /\ \A h \in heads :
                     \E i \in 1..Len(tail) :
                        tail[i] = [lo |-> 1, hi |-> Len(rules[h]) + 1,
                                   clause |-> <<-h>> \o rules[h]])
    /\ [][lastCall.op = "solve" /\ lastCall'.op = "solve" /\ prog' # prog
            => constraints' = constraints]_vars

\* the third solve has thrown Timeout on a store with two rule heads
C4_Witness ==
    /\ test = "interleave"
    /\ prog = <<>>
    /\ lastCall.op = "solve"
    /\ outcome = "timeout"
    /\ Cardinality(heads) = 2
    /\ Len(constraints) = Len(userConstraints) + 2

(***************************************************************************)
(* C5: Rollback preserves user constraints.  A constraint call that        *)
(* returns leaves no checkpoint and a store made of the user's earlier     *)
(* clauses, unchanged and in order, followed by its own clauses alone;     *)
(* every returned solution satisfies every user clause.                    *)
(***************************************************************************)
C5_RollbackPreservesUserConstraints ==
    /\ [][\A op \in ConstraintOps : returns(op) =>
            /\ nonRuleConstraints' = null
            /\ nonRuleConstraints # null =>
                 userConstraints = SubSeq(constraints, 1, nonRuleConstraints[1])
            /\ Len(constraints') > Len(userConstraints)
            /\ SubSeq(constraints', 1, Len(userConstraints)) = userConstraints
            /\ constraints' = userConstraints']_vars
    /\ [](outcome = "solution" =>
            \A k \in 1..Len(userConstraints) : inBand(assignment, userConstraints[k]))

\* a constraint added after a solve that had appended a completion clause
C5_Witness ==
    /\ rolledBack
    /\ outcome = "ok"
    /\ lastCall.op \in ConstraintOps \ {"rule"}
    /\ DOMAIN rules # {}
    /\ Len(userConstraints) >= 2

(***************************************************************************)
(* C6: A Solution is an immutable snapshot.  Whatever is declared, added   *)
(* or solved later, lookup of an attribute that existed when the Solution  *)
(* was made answers what it answered then, and lookup of an attribute      *)
(* declared later throws.                                                  *)
(***************************************************************************)
C6_SolutionSnapshot ==
    solution # null =>
        \A attr \in attributes(fromInternal) :
            LET now == solutionLookup(solution[1], attr, toInternal) IN
            IF attr \in DOMAIN solution[1].atReturn
            THEN ~now.threw /\ now = solution[1].atReturn[attr]
            ELSE now.threw

\* a kept Solution, an attribute declared after it, and a later solve
C6_Witness ==
    /\ solution # null
    /\ <<"c">> \in attributes(fromInternal) \ DOMAIN solution[1].atReturn
    /\ lastCall = callSolve
    /\ outcome = "solution"

(***************************************************************************)
(* C7: Errors do not advance solver state.  A declaration or constraint    *)
(* call that throws leaves the clause list, the rule map, the registry     *)
(* and the checkpoint as they were.                                        *)
(***************************************************************************)
C7_ErrorsLeaveProblemUnchanged ==
    [][prog' # prog /\ outcome' = "error" => UNCHANGED problem]_vars

(***************************************************************************)
(* C8: implies(premises, conclusion) appends the one clause                *)
(* (1, k+1, [-p1, ..., -pk, c]) and touches neither the rule map nor the   *)
(* registry; a returned solution that satisfies the premises satisfies     *)
(* the conclusion; !p -> q and !q -> p have the models {p}, {q}, {p,q}.    *)
(***************************************************************************)
C8_Implies ==
    /\ [][returns("implies") =>
            LET c == lastCall' IN
            /\ constraints' =
                 Append(userConstraints,
                        [lo |-> 1, hi |-> Len(c.a) + 1,
                         clause |-> Append([i \in 1..Len(c.a) |-> -literalOf(c.a[i])],
                                           literalOf(c.b[1]))])
            /\ rules' = rules
            /\ fromInternal' = fromInternal
            /\ toInternal' = toInternal]_vars
    /\ [](outcome = "solution" =>
            \A k \in acceptedCalls("implies") :
               conjunction(assignment, accepted[k].a)
                  => holds(assignment, literalOf(accepted[k].b[1])))
    /\ [](test = "impliesPQ" /\ outcome = "solution" =>
            returned \in {named({"p"}), named({"q"}), named({"p", "q"})})
    /\ [](test = "impliesPQ" /\ ready =>
            solvable = {named({"p"}), named({"q"}), named({"p", "q"})})

\* the conclusions hold though no premise does
C8_Witness ==
    /\ test = "impliesPQ"
    /\ outcome = "solution"
    /\ returned = named({"p", "q"})

(***************************************************************************)
(* C9: equal(A, B) with both lists non-empty admits exactly the            *)
(* assignments of the named attributes in which all of A holds if and      *)
(* only if all of B holds, in each of the four shapes; the shape with two  *)
(* conjunctions mints one anonymous atom, the others none.                 *)
(***************************************************************************)
C9_Equal ==
    /\ outcome = "solution" =>
         \A k \in acceptedCalls("equal") :
            accepted[k].a # <<>> /\ accepted[k].b # <<>> =>
               (conjunction(assignment, accepted[k].a)
                  <=> conjunction(assignment, accepted[k].b))
    /\ test = "equal" /\ ready /\ accepted # <<>> =>
         LET A == accepted[1].a
             B == accepted[1].b
         IN  A # <<>> /\ B # <<>> =>
             /\ solvable = {m \in SUBSET attributes(fromInternal) : sat(m, A) <=> sat(m, B)}
             /\ Len(fromInternal) = IF Len(A) >= 2 /\ Len(B) >= 2 THEN 6 ELSE 5

\* an equal of two conjunctions, solved with both of them satisfied
C9_Witness ==
    /\ test = "equal"
    /\ outcome = "solution"
    /\ accepted = <<callEqual(<<pos("a"), pos("b")>>, <<pos("c"), neg("d")>>)>>
    /\ returned = named({"a", "b", "c"})

(***************************************************************************)
(* C10: Rules with no premises and equal with one empty side work like an  *)
(* assertion.  rule(h, []) records the literal 0 and h is true in every    *)
(* returned solution; equal([], X) and equal(X, []) do to the Problem what *)
(* all(X) does; the scenario over a..g has the single model {a,b,c,e,f}.   *)
(***************************************************************************)
C10_AssertionLike ==
    /\ [][returns("rule") /\ lastCall'.a = <<>> =>
            LET h == literalOf(lastCall'.b[1]) IN
            rules'[h] = (IF h \in DOMAIN rules THEN rules[h] ELSE <<>>) \o <<0>>]_vars
    /\ [][returns("equal") /\ (lastCall'.a = <<>> \/ lastCall'.b = <<>>) =>
            LET X == lastCall'.a \o lastCall'.b IN
            /\ install(all(P, X).p)
            /\ constraints' =
                 Append(userConstraints,
                        [lo |-> Len(X), hi |-> Len(X), clause |-> literalsOf(X)])]_vars
    /\ [](outcome = "solution" =>
            \A k \in acceptedCalls("rule") :
               accepted[k].a = <<>> => holds(assignment, literalOf(accepted[k].b[1])))
    /\ [](test = "assertionLike" /\ outcome = "solution" =>
            returned = named({"a", "b", "c", "e", "f"}))
    /\ [](test = "assertionLike" /\ ready =>
            solvable = {named({"a", "b", "c", "e", "f"})})

\* the scenario's solve has returned its model
C10_Witness ==
    /\ test = "assertionLike"
    /\ outcome = "solution"
    /\ returned = named({"a", "b", "c", "e", "f"})

(***************************************************************************)
(* C11: An accepted quantify(min, max, P) appends the one clause           *)
(* (max(0, ceil(min)), min(|P|, floor(max)), literals of P in order): it   *)
(* stores what the call with its bounds rounded inward stores, as does     *)
(* atMost; every returned solution satisfies between lo and hi of P.       *)
(***************************************************************************)
C11_QuantifyRounds ==
    /\ [][returns("quantify") =>
            LET c == lastCall'
                rounded == quantify(shadow, num(roundUp(c.min)), num(roundDown(c.max)), c.a)
            IN  /\ constraints' = Append(userConstraints, quantified(c.min, c.max, c.a))
                /\ ~rounded.threw
                /\ constraints' = rounded.p.constraints]_vars
    /\ [][returns("atMost") =>
            LET c == lastCall'
                rounded == atMost(shadow, num(roundDown(c.max)), c.a)
            IN  ~rounded.threw /\ constraints' = rounded.p.constraints]_vars
    /\ [](outcome = "solution" =>
            \A k \in acceptedCalls("quantify") :
               LET c == accepted[k] IN
               /\ bandLo(c.min) <= satisfiedOf(assignment, c.a)
               /\ satisfiedOf(assignment, c.a) <= bandHi(c.max, Len(c.a)))

\* quantify(1.5, 3.5, [a, b, c]) accepted, and solved with two of the three
C11_Witness ==
    /\ test = "rounding"
    /\ outcome = "solution"
    /\ accepted = <<callQuantify(15, 35, <<pos("a"), pos("b"), pos("c")>>)>>
    /\ constraints = <<[lo |-> 2, hi |-> 3, clause |-> <<1, 2, 3>>]>>
    /\ returned = named({"a", "b"})

(***************************************************************************)
(* C12: quantify(min, max, P) over declared propositions throws exactly    *)
(* when its band is infeasible or vacuous; the five calls of the tests     *)
(* are rejected; no accepted quantify stores a clause with lo = 0 and      *)
(* hi = |P|.                                                               *)
(***************************************************************************)
C12_QuantifyRejects ==
    /\ [][made("quantify") /\ declaredAll(lastCall'.a) =>
            LET c == lastCall' IN
            outcome' = "error" <=>
                \/ infeasible(c.min, c.max, Len(c.a))
                \/ vacuous(c.min, c.max, Len(c.a))]_vars
    /\ [][made("quantify") /\ lastCall' \in RejectedQuantifies =>
            outcome' = "error" /\ constraints' = constraints]_vars
    /\ [][returns("quantify") =>
            LET stored == constraints'[Len(constraints')] IN
            ~(stored.lo = 0 /\ stored.hi = Len(stored.clause))]_vars

\* quantify(1.3, 1.4, [a, b, c]) has thrown: no integer lies in its band
C12_Witness ==
    /\ lastCall = callQuantify(13, 14, <<pos("a"), pos("b"), pos("c")>>)
    /\ outcome = "error"
    /\ error = "unsatisfiable"
    /\ constraints = <<>>

(***************************************************************************)
(* C13: The derived constructors are defined by quantify.  When accepted,  *)
(* exactly(n, P) leaves the Problem as quantify(n, n, P) does, all(P) as   *)
(* quantify(|P|, |P|, P), atLeast(n, P) as quantify(n, |P|, P),            *)
(* atMost(n, P) as quantify(0, n, P), unique(P) as quantify(1, 1, P),      *)
(* inconsistent(a, b) as atMost(1, [a, b]) and assert(p) as all([p]).      *)
(***************************************************************************)
C13_DerivedConstructors ==
    [][LET c == lastCall'
           n == num(Len(c.a))
       IN  /\ returns("exactly") => sameAsQuantify(c.min, c.min, c.a)
           /\ returns("all") => sameAsQuantify(n, n, c.a)
           /\ returns("atLeast") => sameAsQuantify(c.min, n, c.a)
           /\ returns("atMost") => sameAsQuantify(num(0), c.max, c.a)
           /\ returns("unique") => sameAsQuantify(num(1), num(1), c.a)
           /\ returns("inconsistent") =>
                /\ ~atMost(P, num(1), c.a).threw
                /\ install(atMost(P, num(1), c.a).p)
                /\ sameAsQuantify(num(0), num(1), c.a)
           /\ returns("assert") =>
                /\ ~all(P, c.a).threw
                /\ install(all(P, c.a).p)
                /\ sameAsQuantify(num(1), num(1), c.a)]_vars

\* unique([b, c]) has stored the clause of quantify(1, 1, [b, c])
C13_Witness ==
    /\ test = "unique"
    /\ lastCall = callUnique(<<pos("b"), pos("c")>>)
    /\ outcome = "ok"
    /\ constraints[Len(constraints)] = [lo |-> 1, hi |-> 1, clause |-> <<2, 3>>]

(***************************************************************************)
(* C14: Degenerate constraints are reported, not silently accepted:        *)
(* atLeast(n, P) with n <= 0 or n > |P|, atMost(n, P) with n < 0 or        *)
(* n >= |P|, exactly(n, P) with n < 0, n > |P| or n not an integer,        *)
(* exactly(0, []), all([]), unique([]) and equal([], []) each raise an     *)
(* error at the call and append no clause.                                 *)
(***************************************************************************)
C14_DegenerateRejected ==
    [][prog' # prog /\ degenerate(lastCall') =>
          /\ outcome' = "error"
          /\ constraints' = constraints
          /\ rules' = rules]_vars

\* atMost(5, [a, b, c]) raised and the store is still empty
C14_Witness ==
    /\ test = "atMost"
    /\ lastCall = callAtMost(num(5), <<pos("a"), pos("b"), pos("c")>>)
    /\ outcome = "error"
    /\ error = "trivial"
    /\ constraints = <<>>

(***************************************************************************)
(* C15: atLeast(n, P) with a non-integer n strictly between 0 and |P| over *)
(* declared propositions is accepted: it appends the one clause with       *)
(* lo = ceil(n) and hi = |P|, as quantify(n, |P|, P) does;                 *)
(* atLeast(1.5, [a, b, c]) stores (2, 3, [a, b, c]).  Only exactly(n, P)   *)
(* raises for a non-integer n and stores no clause.                        *)
(***************************************************************************)
C15_NonIntegerAtLeastRounds ==
    /\ [][LET c == lastCall' IN
          made("atLeast") /\ c.min % 10 # 0 /\ declaredAll(c.a)
            /\ 0 < c.min /\ c.min < num(Len(c.a)) =>
             /\ outcome' = "ok"
             /\ sameAsQuantify(c.min, num(Len(c.a)), c.a)
             /\ constraints'[Len(constraints')] =
                  [lo |-> roundUp(c.min), hi |-> Len(c.a),
                   clause |-> literalsOf(c.a)]]_vars
    /\ [][made("exactly") /\ lastCall'.min % 10 # 0 =>
             outcome' = "error" /\ constraints' = constraints]_vars

\* atLeast(1.5, [a, b, c]) was accepted and a solution returned under it
C15_Witness ==
    /\ test = "rounding"
    /\ accepted = <<callAtLeast(15, <<pos("a"), pos("b"), pos("c")>>)>>
    /\ constraints = <<[lo |-> 2, hi |-> 3, clause |-> <<1, 2, 3>>]>>
    /\ outcome = "solution"

\* the statement as written: atLeast with a non-integer n raises and stores
\* no clause
C15_NonIntegerAtLeastRejected ==
    [][made("atLeast") /\ lastCall'.min % 10 # 0 =>
          outcome' = "error" /\ constraints' = constraints]_vars

(***************************************************************************)
(* C16: rule rejects a negated conclusion: the call raises, appends no     *)
(* clause and records no justification.  implies accepts a negated         *)
(* conclusion and stores its clause with the negative literal last.  Every *)
(* key of the rule map is a positive atom id.                              *)
(***************************************************************************)
C16_RuleHeadPositive ==
    /\ [][made("rule") /\ isNegated(lastCall'.b[1]) =>
             /\ outcome' = "error"
             /\ constraints' = constraints
             /\ rules' = rules
             /\ fromInternal' = fromInternal]_vars
    /\ [][LET c == lastCall' IN
          made("implies") /\ isNegated(c.b[1]) /\ declaredAll(c.a \o c.b) =>
             /\ outcome' = "ok"
             /\ Len(constraints') = Len(userConstraints) + 1
             /\ LET stored == constraints'[Len(constraints')] IN
                /\ stored.clause[Len(stored.clause)] = literalOf(c.b[1])
                /\ stored.clause[Len(stored.clause)] < 0
             /\ rules' = rules]_vars
    /\ [](\A h \in DOMAIN rules : h \in 1..(Len(fromInternal) - 1))

\* implies([a], !b) was accepted, then rule(!c, [d]) raised
C16_Witness ==
    /\ test = "negations"
    /\ lastCall = callRule(neg("c"), <<pos("d")>>)
    /\ outcome = "error"
    /\ error = "negated"
    /\ accepted = <<callImplies(<<pos("a")>>, neg("b"))>>
    /\ constraints = <<[clause |-> <<-1, -2>>, lo |-> 1, hi |-> 2]>>
    /\ DOMAIN rules = {}

(***************************************************************************)
(* C17: Solution.trueAttributes is the lexicographically sorted list of    *)
(* the names of exactly the named attributes the assignment sets to true;  *)
(* anonymous atoms and id 0 never appear in it.                            *)
(***************************************************************************)
C17_TrueAttributesSorted ==
    solution # null =>
       LET t == solution[1].trueAttributes
           a == solution[1].satisfyingAssignment
           trueNamed == {i \in 1..(Len(a) - 1) : a[i + 1] /\ fromInternal[i + 1] # <<>>}
       IN  /\ \A i, j \in 1..Len(t) : i < j => ~less(t[j], t[i])
           /\ {t[i] : i \in 1..Len(t)} = {fromInternal[i + 1] : i \in trueNamed}
           /\ Len(t) = Cardinality(trueNamed)
           /\ \A i \in 1..Len(t) : t[i] # <<>> /\ t[i] # fromInternal[1]

\* q, 'p y' and 'p x' were declared in this order and are all true, with the
\* anonymous stand-in of the rule's premises: the list is 'p x', 'p y', q
C17_Witness ==
    /\ test = "names"
    /\ solution # null
    /\ fromInternal = << <<>>, <<"q">>, <<"p", "y">>, <<"p", "x">>, <<>> >>
    /\ solution[1].satisfyingAssignment = <<TRUE, TRUE, TRUE, TRUE, TRUE>>
    /\ solution[1].trueAttributes = << <<"p", "x">>, <<"p", "y">>, <<"q">> >>

(***************************************************************************)
(* C18: attribute(name, domains) rejects the redeclaration of a name, with *)
(* the same or with a different arity, and rejects four or more domains.   *)
(* The rejected call mints no id and leaves the registry unchanged.        *)
(***************************************************************************)
C18_AttributeRejects ==
    [][LET c == lastCall' IN
       made("attribute") /\ (c.name \in DOMAIN toInternal \/ Len(c.args) >= 4) =>
          /\ outcome' = "error"
          /\ fromInternal' = fromInternal
          /\ toInternal' = toInternal
          /\ constraints' = constraints
          /\ rules' = rules]_vars

\* b was declared over {green, red}; declaring b again without arguments
\* raised and the two ids of b are all there is
C18_Witness ==
    /\ test = "arities"
    /\ lastCall = declare("b")
    /\ outcome = "error"
    /\ error = "declaration"
    /\ fromInternal = << <<>>, <<"b", "green">>, <<"b", "red">> >>
    /\ toInternal["b"].arity = 1

(***************************************************************************)
(* C19: Ids are strictly increasing in the order they are minted, start at *)
(* 1 and are never reused or removed: every step keeps each id with its    *)
(* name, keeps each entry of the registry, and gives a new name or a new   *)
(* stand-in only ids above all earlier ones.  Rollback never removes an    *)
(* id.                                                                     *)
(***************************************************************************)
C19_IdMonotonicity ==
    /\ [][/\ Len(fromInternal') >= Len(fromInternal)
          /\ SubSeq(fromInternal', 1, Len(fromInternal)) = fromInternal
          /\ \A name \in DOMAIN toInternal :
                name \in DOMAIN toInternal' /\ toInternal'[name] = toInternal[name]
          /\ \A name \in DOMAIN toInternal' \ DOMAIN toInternal :
                LET ids == toInternal'[name].ids IN
                \A t \in DOMAIN ids :
                   /\ ids[t] >= Len(fromInternal)
                   /\ ids[t] < Len(fromInternal')
          /\ returns("rule") /\ Len(lastCall'.a) >= 2 =>
                LET js == rules'[literalOf(lastCall'.b[1])] IN
                /\ Len(fromInternal') = Len(fromInternal) + 1
                /\ js[Len(js)] = Len(fromInternal)
          /\ rolledBack' =>
                \A i \in 1..Len(fromInternal) : fromInternal'[i] = fromInternal[i]]_vars
    /\ [](/\ fromInternal[1] = <<>>
          /\ \A name \in DOMAIN toInternal :
                LET ids == toInternal[name].ids IN
                \A t \in DOMAIN ids :
                   /\ ids[t] \in 1..(Len(fromInternal) - 1)
                   /\ fromInternal[ids[t] + 1] = <<name>> \o t
                   /\ \A u \in DOMAIN ids : ids[u] = ids[t] => u = t)

\* a and b have ids 1 and 2, a rule's stand-in has id 3, and the call after
\* a solve rolled the clauses back with every id still in place
C19_Witness ==
    /\ test = "interleave"
    /\ rolledBack
    /\ fromInternal = << <<>>, <<"a">>, <<"b">>, <<>> >>
    /\ toInternal["a"].ids[<<>>] = 1
    /\ toInternal["b"].ids[<<>>] = 2
    /\ 2 \in DOMAIN rules /\ rules[2] = <<3>>

(***************************************************************************)
(* C20: In every state of the search and in every returned Solution the    *)
(* assignment is total over the ids 0..N, with N the number of atoms, and  *)
(* assigns true to id 0.  Neither the greedy nor the random flip ever      *)
(* flips id 0: a flip changes at most one id, and that id is at least 1.   *)
(***************************************************************************)
C20_AssignmentShape ==
    /\ [](pc = "search" \/ outcome = "solution" =>
            /\ DOMAIN assignment = 1..Len(fromInternal)
            /\ \A i \in DOMAIN assignment : assignment[i] \in BOOLEAN
            /\ assignment[1] = TRUE)
    /\ [](solution # null =>
            LET a == solution[1].satisfyingAssignment IN
            /\ Len(a) >= 1 /\ Len(a) <= Len(fromInternal)
            /\ a[1] = TRUE)
    /\ [][pc = "search" /\ (pc' = "search" \/ outcome' = "solution") =>
            /\ Len(assignment') = Len(assignment)
            /\ assignment'[1] = assignment[1]
            /\ Cardinality({i \in 2..Len(assignment) :
                              assignment'[i] # assignment[i]}) <= 1]_vars

\* the search has flipped an id once and goes on, id 0 still true
C20_Witness ==
    /\ test = "unsat"
    /\ pc = "search"
    /\ iteration = 1
    /\ fromInternal = << <<>>, <<"a">> >>
    /\ assignment = <<TRUE, TRUE>>

\* the total assignments over n ids, id 0 true
totalAssignments(n) == {a \in [1..n -> BOOLEAN] : a[1]}

\* the models of the store: the sets of named attributes that extend to an
\* assignment satisfying every clause, those of the completion included
models ==
    LET cs == addCompletion(P).constraints IN
    {trueAttributeSet(a, fromInternal) :
        a \in {a \in totalAssignments(Len(fromInternal)) :
                 \A k \in 1..Len(cs) : inBand(a, cs[k])}}

(***************************************************************************)
(* C21: Variety.  Every model of the store is a possible result of solve:  *)
(* whenever solve can be called, each model is the set returned for some   *)
(* first assignment.  Under fair random choices, solves made again and     *)
(* again return every model in the end.                                    *)
(***************************************************************************)
C21_Variety ==
    /\ [](calls("solve") # {} => Cardinality(models) >= 2 /\ models \subseteq solvable)
    /\ \A m \in SUBSET named({"a", "b"}) :
          (Len(prog) = 2 /\ m \in models) ~> (outcome = "solution" /\ returned = m)

\* inconsistent(a, b) has three models; a solve of the loop after the first
\* has returned {b}
C21_Witness ==
    /\ test = "variety"
    /\ accepted = <<callInconsistent(pos("a"), pos("b"))>>
    /\ lastCall = callSolveAgain(1)
    /\ outcome = "solution"
    /\ returned = named({"b"})

\* the clause of the completion for head h with its justifications js
completionClause(h, js) == [lo |-> 1, hi |-> Len(js) + 1, clause |-> <<-h>> \o js]

(***************************************************************************)
(* C22: Completion clauses are present exactly when completion is active.  *)
(* With the checkpoint null the clause list is the list of the user's      *)
(* clauses and holds no completion clause.  With the checkpoint c, the     *)
(* first c clauses are the user's clauses and the rest is exactly one      *)
(* clause (1, k+1, [-h, j1, ..., jk]) for every head h of the rule map,    *)
(* with the justifications of h in the order they were recorded.           *)
(***************************************************************************)
C22_CompletionWhenActive ==
    IF nonRuleConstraints = null
    THEN constraints = userConstraints
    ELSE LET c == nonRuleConstraints[1]
             rest == SubSeq(constraints, c + 1, Len(constraints))
         IN  /\ c <= Len(constraints)
             /\ SubSeq(constraints, 1, c) = userConstraints
             /\ Len(rest) = Cardinality(DOMAIN rules)
             /\ \A h \in DOMAIN rules :
                   \E k \in 1..Len(rest) : rest[k] = completionClause(h, rules[h])

\* a is the head of two rules; after the solve the one completion clause of
\* a follows the user's clauses
C22_Witness ==
    /\ test = "twoRules"
    /\ outcome = "solution"
    /\ rules = (1 :> <<5, 4>>)
    /\ nonRuleConstraints = <<Len(userConstraints)>>
    /\ Len(constraints) = Len(userConstraints) + 1
    /\ constraints[Len(constraints)] = [lo |-> 1, hi |-> 3, clause |-> <<-1, 5, 4>>]

\* the scores of the scoring pass that produced the result of the state
score == suggestionMap(constraints, assignment)

\* the atoms of the assignment
atoms == 1..(Len(assignment) - 1)

\* the highest score of an atom
topScore == CHOOSE t \in {score[i] : i \in atoms} : \A i \in atoms : score[i] <= t

(***************************************************************************)
(* C23: When the assignment does not satisfy all clauses, a suggestion     *)
(* that the scoring pass returns is an atom of the highest net score, with *)
(* the baseline 0 as a threshold: it is drawn from the set                 *)
(* {a in 1..N : score[a] = max(max score, 0)}.                             *)
(***************************************************************************)
C23_SuggestionIsBest ==
    pc = "search" /\ result[1].suggestion # null =>
        result[1].suggestion[1] \in {i \in atoms : score[i] = max2(topScore, 0)}

(***************************************************************************)
(* C24: After each flip the scoring is recomputed and a satisfying         *)
(* assignment is returned; the Timeout error is raised only with an        *)
(* assignment that still does not satisfy all clauses, so that a           *)
(* satisfying assignment reached by the last flip the failsafe allows is   *)
(* returned.                                                               *)
(***************************************************************************)
C24_TimeoutOnlyUnsatisfied ==
    outcome = "timeout" => \E k \in 1..Len(constraints) : ~inBand(assignment, constraints[k])

(***************************************************************************)
(* C25: Every iteration of the search loop flips the value of exactly one  *)
(* atom in 1..N: the suggestion handed to a greedy step is always a        *)
(* defined atom id in 1..N, and the assignment after the iteration differs *)
(* from the one before in exactly one position.                            *)
(***************************************************************************)
C25_FlipsExactlyOne ==
    /\ [](pc = "search" =>
            result[1].suggestion # null /\ result[1].suggestion[1] \in atoms)
    /\ [][pc = "search" /\ (pc' = "search" \/ outcome' \in {"solution", "timeout"}) =>
            /\ Len(assignment') = Len(assignment)
            /\ Cardinality({i \in 2..Len(assignment) :
                              assignment'[i] # assignment[i]}) = 1]_vars

\* the literals, as <<clause, position>>, on atom i that are true (v = TRUE)
\* or false in the clauses of the set ks
literalsOn(cs, a, i, v, ks) ==
    UNION {{<<k, j>> : j \in {j \in 1..Len(cs[k].clause) :
                                /\ cs[k].clause[j] \in {i, -i}
                                /\ holds(a, cs[k].clause[j]) = v}} : k \in ks}

\* the net score of atom i: +1 for a literal whose flip brings a violated
\* clause into its band, -1 for one whose flip takes a satisfied clause out
netScore(cs, a, i) ==
    LET every == 1..Len(cs)
        below == {k \in every : ~inBand(a, cs[k]) /\ count(a, cs[k]) = cs[k].lo - 1}
        above == {k \in every : ~inBand(a, cs[k]) /\ count(a, cs[k]) = cs[k].hi + 1}
        atLo == {k \in every : inBand(a, cs[k]) /\ count(a, cs[k]) = cs[k].lo}
        atHi == {k \in every : inBand(a, cs[k]) /\ count(a, cs[k]) = cs[k].hi}
    IN  Cardinality(literalsOn(cs, a, i, FALSE, below))
        + Cardinality(literalsOn(cs, a, i, TRUE, above))
        - Cardinality(literalsOn(cs, a, i, TRUE, atLo))
        - Cardinality(literalsOn(cs, a, i, FALSE, atHi))

(***************************************************************************)
(* C26: The scoring pass computes, for every assignment that a solve       *)
(* draws or reaches, s = the number of clauses whose count of true         *)
(* literals lies in [lo, hi], reports SAT iff s is the number of clauses,  *)
(* and computes score[a] as the sum over the clauses of +1 for each false  *)
(* literal on a in a violated clause with count = lo - 1, +1 for each true *)
(* literal on a in a violated clause with count = hi + 1, -1 for each true *)
(* literal on a in a satisfied clause with count = lo, -1 for each false   *)
(* literal on a in a satisfied clause with count = hi, and nothing from    *)
(* the other clauses.                                                      *)
(***************************************************************************)
C26_Scoring ==
    outcome \in {"search", "solution", "timeout"} =>
       LET a == assignment
           s == Cardinality({k \in 1..Len(constraints) : inBand(a, constraints[k])})
       IN  /\ clausesSatisfied(constraints, a) = s
           /\ (satisfies(constraints, a) = {null}) <=> (s = Len(constraints))
           /\ score = [i \in 0..(Len(a) - 1) |-> netScore(constraints, a, i)]
           /\ pc = "search" =>
                 /\ result \in satisfies(constraints, a)
                 /\ result[1].clausesSatisfied = s
                 /\ s < Len(constraints)
           /\ outcome = "solution" => s = Len(constraints)

\* a search state of the stuck program: the all, two below its band, scores
\* nothing; the unique, satisfied on both its bounds, scores -1 for the
\* false a and -1 for the true b
C26_Witness ==
    /\ test = "stuck"
    /\ pc = "search"
    /\ assignment = <<TRUE, FALSE, TRUE>>
    /\ result[1].clausesSatisfied = 1
    /\ score[1] = -1
    /\ score[2] = -1

(***************************************************************************)
(* C27: Clause well-formedness.  In every reachable state every clause     *)
(* (lo, hi, L) of the store, whichever constructor or completion produced  *)
(* it, has integer bounds with 0 <= lo <= hi <= |L|.                       *)
(***************************************************************************)
C27_ClauseWellFormed ==
    \A k \in 1..Len(constraints) :
       LET c == constraints[k] IN
       /\ c.lo \in Nat
       /\ c.hi \in Nat
       /\ c.lo <= c.hi
       /\ c.hi <= Len(c.clause)

\* quantify(2, 5, [a, b, c]) was accepted and stored with its upper bound
\* brought down to the three literals
C27_Witness ==
    /\ test = "rounding"
    /\ accepted = <<callQuantify(num(2), num(5), <<pos("a"), pos("b"), pos("c")>>)>>
    /\ constraints = <<[clause |-> <<1, 2, 3>>, lo |-> 2, hi |-> 3]>>

\* the number of ids minted so far: the atoms 1..minted
minted == Len(fromInternal) - 1

\* the number of clauses below the checkpoint: the user's clauses
userClauses == IF nonRuleConstraints = null THEN Len(constraints) ELSE nonRuleConstraints[1]

(***************************************************************************)
(* C28: Literal validity.  In every reachable state every literal of every *)
(* stored clause and every justification of the rule map refers to an id   *)
(* of the registry: its absolute value is at most the number of minted     *)
(* atoms.  The literal 0 occurs only as a justification and inside         *)
(* completion clauses, never in a user clause below the checkpoint.        *)
(***************************************************************************)
C28_LiteralValidity ==
    /\ \A k \in 1..Len(constraints) :
          \A j \in 1..Len(constraints[k].clause) :
             LET l == constraints[k].clause[j] IN
             /\ l \in (-minted)..minted
             /\ l = 0 => k > userClauses
    /\ \A h \in DOMAIN rules :
          /\ h \in 1..minted
          /\ \A j \in 1..Len(rules[h]) : rules[h][j] \in (-minted)..minted

\* a has a rule with no premises: its justification is 0, and after the
\* solve 0 stands in the completion clause of a and in no user clause
C28_Witness ==
    /\ test = "assertionLike"
    /\ outcome = "solution"
    /\ rules[1] = <<0>>
    /\ \E k \in (userClauses + 1)..Len(constraints) :
          constraints[k] = [lo |-> 1, hi |-> 2, clause |-> <<-1, 0>>]
    /\ \E h \in DOMAIN rules : \E j \in 1..Len(rules[h]) : rules[h][j] # 0

(***************************************************************************)
(* C29: In the earlier Problem that stores its own result, after any       *)
(* sequence of declarations, constraint additions and solves,              *)
(* satisfyingAssignment is null if solve has not returned since the last   *)
(* constraint addition, and whenever it is not null it has the length of   *)
(* fromInternal.                                                           *)
(***************************************************************************)
C29_StoredResult ==
    /\ lastCall.op \in ConstraintOps /\ outcome = "ok" => satisfyingAssignment = null
    /\ satisfyingAssignment # null =>
          Len(satisfyingAssignment[1]) = Len(fromInternal)

(***************************************************************************)
(* C30: Solution views are self-consistent.  For every returned Solution   *)
(* and every attribute string declared before the solve, whatever the      *)
(* declared domains, the attribute is in trueAttributes if and only if     *)
(* lookup of it returns true, and no string is in trueAttributes more than *)
(* once.                                                                   *)
(***************************************************************************)
C30_SolutionViewsAgree ==
    solution # null =>
       LET t == solution[1].trueAttributes
           looked == solution[1].atReturn
       IN  /\ \A attr \in DOMAIN looked :
                 /\ ~looked[attr].threw
                 /\ (\E i \in 1..Len(t) : t[i] = attr) <=> looked[attr].value
           /\ \A i, j \in 1..Len(t) : t[i] = t[j] => i = j

====
